---- MODULE Spec2Model ----
(***************************************************************************)
(* A model of worldview (src/src/world.rs, src/src/view.rs): the routing   *)
(* knowledge base World built from three input files, the AS-path parser    *)
(* Path::build_from_str, the valley-free classifier Path::valleyless, the   *)
(* splicing search View::intersect_paths / View::shortest_path and the      *)
(* per-View accumulators hard_core and all_seen with the two dissimilarity  *)
(* metrics.                                                                 *)
(*                                                                          *)
(* Text is modelled as a sequence of one-character strings, a Vec as a      *)
(* sequence, a HashSet as a set together with the order in which it is      *)
(* iterated wherever the code's result depends on that order, an Option as  *)
(* a record [some, val], and a panic as a value of its own.                 *)
(***************************************************************************)
EXTENDS Integers, Sequences, FiniteSets, TLC

VARIABLES world, perspectives, hard_core, all_seen, call, ret

vars == <<world, perspectives, hard_core, all_seen, call, ret>>

(***************************************************************************)
(* Bounds of the model.                                                     *)
(***************************************************************************)
\* tokens of an AS-path field drawn for Path::build_from_str
MaxTokens == 2
\* alternatives inside one AS-SET token
MaxAlts == 2
\* hops of a path handed to valleyless or intersect_paths
MaxHops == 3
\* lines of a relationship file drawn for the path functions
MaxRelLines == 2
\* paths in the two sets handed to shortest_path, together
MaxPaths == 3
\* vantage addresses added to one View
MaxPersp == 2
\* vantage addresses in one add_perspectives call
MaxBatch == 2

(***************************************************************************)
(* Generic helpers on sequences.                                            *)
(***************************************************************************)
Range(s) == {s[i] : i \in DOMAIN s}

Reverse(s) == [i \in 1..Len(s) |-> s[Len(s) + 1 - i]]

\* the sequences over S of length lo..hi
SeqsOf(S, lo, hi) == UNION {[1..n -> S] : n \in lo..hi}

\* the sequences that enumerate the finite set S once each
Orders(S) == {o \in [1..Cardinality(S) -> S] : Range(o) = S}

None == [some |-> FALSE, val |-> <<>>]

Some(v) == [some |-> TRUE, val |-> v]

(***************************************************************************)
(* world.rs: Path parsing.                                                  *)
(***************************************************************************)
Digits == <<"0", "1", "2", "3", "4", "5", "6", "7", "8", "9">>

Brackets == {"{", "}", "(", ")", "[", "]"}

IsDigit(c) == \E d \in 1..10 : Digits[d] = c

DigitVal(c) == (CHOOSE d \in 1..10 : Digits[d] = c) - 1

\* str::split(sep): the pieces between the separators, empty pieces kept
RECURSIVE Split(_, _)
Split(s, sep) ==
    IF \A i \in DOMAIN s : s[i] # sep
    THEN <<s>>
    ELSE LET k == CHOOSE i \in DOMAIN s :
                      s[i] = sep /\ \A j \in 1..(i - 1) : s[j] # sep
         IN <<SubSeq(s, 1, k - 1)>> \o Split(SubSeq(s, k + 1, Len(s)), sep)

\* str::trim_matches(|c| "{}()[]".contains(c)): strip both ends
TrimBrackets(s) ==
    LET keep == {i \in DOMAIN s : s[i] \notin Brackets}
    IN IF keep = {} THEN <<>>
       ELSE LET lo == CHOOSE i \in keep : \A j \in keep : i <= j
                hi == CHOOSE i \in keep : \A j \in keep : j <= i
            IN SubSeq(s, lo, hi)

\* str::parse::<ASN>(): Some(value) for a non-empty run of decimal digits, else None
RECURSIVE DecimalValue(_)
DecimalValue(s) ==
    IF s = <<>> THEN 0
    ELSE 10 * DecimalValue(SubSeq(s, 1, Len(s) - 1)) + DigitVal(s[Len(s)])

ParseASN(s) ==
    IF s # <<>> /\ \A i \in DOMAIN s : IsDigit(s[i])
    THEN Some(DecimalValue(s))
    ELSE None

\* parse_str_to_asns, the pieces of the string: those between the commas of
\* the trimmed string when it holds an opening bracket, else the string itself
asn_strings(string) ==
    IF \E i \in DOMAIN string : string[i] \in {"{", "(", "["}
    THEN Split(TrimBrackets(string), ",")
    ELSE <<string>>

\* .unwrap() of every parsed piece: a failed parse panics
unwrap_asns(parsed) ==
    IF \E i \in DOMAIN parsed : ~parsed[i].some
    THEN [panic |-> TRUE, asns |-> <<>>]
    ELSE [panic |-> FALSE, asns |-> [i \in DOMAIN parsed |-> parsed[i].val]]

\* .map(|x| x.parse::<ASN>())
parse_asns(pieces) == [i \in DOMAIN pieces |-> ParseASN(pieces[i])]

\* Path::parse_str_to_asns: [panic, asns]
parse_str_to_asns(string) == unwrap_asns(parse_asns(asn_strings(string)))

\* prepend with the new hop put last instead of first
prepend_at_end(path, asn) == path \o <<asn>>

\* Path::prepend
prepend(path, asn) == <<asn>> \o path

\* build_from_vec, one round of the loop on st = [panic, current_set, result]:
\* new_set holds every path of current_set with every ASN of the token put in
\* front, it becomes current_set, and result.extend(new_set.clone())
build_from_vec_round(st, parsed) ==
    IF parsed.panic
    THEN [panic |-> TRUE, current_set |-> {}, result |-> {}]
    ELSE [panic |-> FALSE,
          current_set |-> {prepend(c, parsed.asns[i]) :
                              c \in st.current_set, i \in DOMAIN parsed.asns},
          result |-> st.result \cup
                     {prepend(c, parsed.asns[i]) :
                         c \in st.current_set, i \in DOMAIN parsed.asns}]

\* the loop of build_from_vec over the tokens still to be read, last one first
RECURSIVE build_from_vec_loop(_, _)
build_from_vec_loop(path, st) ==
    IF path = <<>> \/ st.panic THEN st
    ELSE build_from_vec_loop(SubSeq(path, 1, Len(path) - 1),
             build_from_vec_round(st, parse_str_to_asns(path[Len(path)])))

\* what build_from_vec returns: [panic, paths]
build_from_vec_result(st) == [panic |-> st.panic, paths |-> st.result]

\* Path::build_from_vec
build_from_vec(path) ==
    build_from_vec_result(build_from_vec_loop(path,
        [panic |-> FALSE, current_set |-> {<<>>}, result |-> {}]))

\* Path::build_from_str
build_from_str(path) == build_from_vec(Split(path, " "))

(***************************************************************************)
(* world.rs: the relationship graph.                                        *)
(***************************************************************************)
\* ASRelation, with the order #[derive(PartialOrd)] gives its variants
RelRank(r) ==
    CASE r = "No" -> 0
      [] r = "Consumes" -> 1
      [] r = "Peers" -> 2
      [] r = "Provides" -> 3

\* HashMap::insert
MapInsert(m, k, v) == [x \in DOMAIN m \cup {k} |-> IF x = k THEN v ELSE m[x]]

EmptyMap == [x \in {} |-> 0]

\* World::load_relationships over the lines [comment, fields] of the file:
\* comment is line.starts_with('#'), fields the three parsed numbers
RECURSIVE load_relationships_loop(_, _)
load_relationships_loop(lines, result) ==
    IF lines = <<>> THEN result
    ELSE LET a == lines[1].fields[1]
             b == lines[1].fields[2]
             r == lines[1].fields[3]
             next == IF lines[1].comment THEN result
                     ELSE IF r = -1
                     THEN MapInsert(MapInsert(result, <<a, b>>, "Provides"),
                                    <<b, a>>, "Consumes")
                     ELSE IF r = 0
                     THEN MapInsert(MapInsert(result, <<a, b>>, "Peers"),
                                    <<b, a>>, "Peers")
                     ELSE result
         IN load_relationships_loop(Tail(lines), next)

load_relationships(lines) == load_relationships_loop(lines, EmptyMap)

(***************************************************************************)
(* world.rs: Path::valleyless.                                              *)
(***************************************************************************)
\* the body of the loop `for i in 0..self.path.len() - 1`, from index i
\* (0-based) with the running `state`
RECURSIVE valleyless_loop(_, _, _, _)
valleyless_loop(path, as_relationships, i, state) ==
    IF i >= Len(path) - 1 THEN TRUE
    ELSE LET pair == <<path[i + 1], path[i + 2]>>
         IN IF pair \in DOMAIN as_relationships
            THEN LET next == as_relationships[pair]
                 IN IF RelRank(next) >= RelRank(state)
                    THEN valleyless_loop(path, as_relationships, i + 1, next)
                    ELSE FALSE
            ELSE FALSE

\* Path::valleyless: [panic, val].  For an empty path `self.path.len() - 1`
\* underflows usize: a build with overflow checks panics there, a build
\* without them wraps to usize::MAX and panics on self.path[0].
valleyless(path, as_relationships) ==
    IF Len(path) = 0
    THEN [panic |-> TRUE, val |-> FALSE]
    ELSE [panic |-> FALSE,
          val |-> valleyless_loop(path, as_relationships, 0, "No")]

(***************************************************************************)
(* view.rs: splicing.                                                       *)
(***************************************************************************)
\* View::choose_best_option(pair)(current)
choose_best_option(pair, current) ==
    IF current[1] + current[2] > pair[1] + pair[2] THEN current ELSE pair

\* rev_position without the rev(): the place of the first match in b read
\* forwards
position_forwards(b, asn) ==
    LET hits == {k \in DOMAIN b : b[k] = asn}
    IN IF hits = {} THEN None
       ELSE Some((CHOOSE k \in hits : \A h \in hits : k <= h) - 1)

\* b.iter().rev().position(|x| x == asn): Some(bi) with bi the 0-based place of
\* the first match in b read backwards
rev_position(b, asn) ==
    LET rb == Reverse(b)
        hits == {k \in DOMAIN rb : rb[k] = asn}
    IN IF hits = {} THEN None
       ELSE Some((CHOOSE k \in hits : \A h \in hits : k <= h) - 1)

\* find_branching_point, one round of the loop: ret after a[ai] was looked up
\* in b with the outcome pos
find_branching_point_round(ai, len_b, pos, r) ==
    IF pos.some
    THEN Some(IF r.some
              THEN choose_best_option(<<ai, len_b - 1 - pos.val>>, r.val)
              ELSE <<ai, len_b - 1 - pos.val>>)
    ELSE r

\* View::find_branching_point, from index ai (0-based) of a with the running ret
RECURSIVE find_branching_point_loop(_, _, _, _)
find_branching_point_loop(a, b, ai, r) ==
    IF ai >= Len(a) THEN r
    ELSE find_branching_point_loop(a, b, ai + 1,
             find_branching_point_round(ai, Len(b), rev_position(b, a[ai + 1]), r))

find_branching_point(a, b) == find_branching_point_loop(a, b, 0, None)

\* the splice without the source's part: subb alone
splice_subb_only(a, b, branches) ==
    IF branches.some
    THEN Some(SubSeq(b, branches.val[2] + 2, Len(b)))
    ELSE None

\* intersect_paths once the branching point is known: suba reversed, then subb
splice(a, b, branches) ==
    IF branches.some
    THEN Some(Reverse(SubSeq(a, branches.val[1] + 1, Len(a)))
              \o SubSeq(b, branches.val[2] + 2, Len(b)))
    ELSE None

\* View::intersect_paths
intersect_paths(a, b) == splice(a, b, find_branching_point(a, b))

(***************************************************************************)
(* view.rs: View::shortest_path.                                            *)
(***************************************************************************)
\* Option<Path>::min(self, other) for two Some values under `impl Ord for Path`
\* (world.rs: hop count only): other only when self is greater
path_min(self, other) == IF Len(self) > Len(other) THEN other ELSE self

\* `if stored.is_none() { Some(short) } else { stored.min(Some(short)) }`
keep_shorter(stored, short) ==
    IF ~stored.some THEN short ELSE Some(path_min(stored.val, short.val))

\* the body of the inner loop of shortest_path on st = [shortest,
\* shortest_valleyless].  A spliced path holds a hop at least, so valleyless
\* never panics here.
shortest_path_round(st, short, as_relationships) ==
    IF ~short.some THEN st
    ELSE IF valleyless(short.val, as_relationships).val
    THEN [shortest |-> st.shortest,
          shortest_valleyless |-> keep_shorter(st.shortest_valleyless, short)]
    ELSE [shortest |-> keep_shorter(st.shortest, short),
          shortest_valleyless |-> st.shortest_valleyless]

\* the two nested loops of shortest_path, over the orders in which the two
\* HashSets are iterated
RECURSIVE shortest_path_loop(_, _, _, _, _, _)
shortest_path_loop(src, dst, as_relationships, si, di, st) ==
    IF si > Len(src) THEN st
    ELSE IF di > Len(dst)
    THEN shortest_path_loop(src, dst, as_relationships, si + 1, 1, st)
    ELSE shortest_path_loop(src, dst, as_relationships, si, di + 1,
             shortest_path_round(st, intersect_paths(src[si], dst[di]),
                                 as_relationships))

\* Option::or
option_or(self, optb) == IF self.some THEN self ELSE optb

\* the final choice the other way round: shortest.or(shortest_valleyless)
any_first(st) == option_or(st.shortest, st.shortest_valleyless)

\* shortest_path with the final choice the other way round
shortest_path_any_first(src, dst, as_relationships) ==
    any_first(shortest_path_loop(src, dst, as_relationships, 1, 1,
                  [shortest |-> None, shortest_valleyless |-> None]))

\* shortest_valleyless.or(shortest)
valleyless_first(st) == option_or(st.shortest_valleyless, st.shortest)

\* View::shortest_path(src_in_paths, dst_in_paths, world), the two sets given
\* in their iteration order
shortest_path(src, dst, as_relationships) ==
    valleyless_first(shortest_path_loop(src, dst, as_relationships, 1, 1,
                         [shortest |-> None, shortest_valleyless |-> None]))

(***************************************************************************)
(* world.rs: the prefix tables and World::build_new.                        *)
(* An address is [fam, bytes]; a prefix key is <<address, length>>, the     *)
(* (IpAddr, u32) of the code.  A table of the treebitmap crate is a map     *)
(* from prefix keys to the stored value; the stored value of a prefix is    *)
(* its HashSet<Path> in the order the process iterates it.                  *)
(***************************************************************************)
V4(a, b, c, d) == [fam |-> "V4", bytes |-> <<a, b, c, d>>]

V6(bytes) == [fam |-> "V6", bytes |-> bytes]

RECURSIVE Pow2(_)
Pow2(n) == IF n = 0 THEN 1 ELSE 2 * Pow2(n - 1)

\* bit i (1 = most significant) of an address
Bit(bytes, i) == (bytes[((i - 1) \div 8) + 1] \div Pow2(7 - ((i - 1) % 8))) % 2

\* the prefix key covers the address: same family, same leading bits
Covers(key, addr) ==
    /\ key[1].fam = addr.fam
    /\ \A i \in 1..key[2] : Bit(key[1].bytes, i) = Bit(addr.bytes, i)

\* the entry of the longest of the prefixes `hits`, if there is one:
\* Some(<<match_addr, match_len, value>>)
longest_of(table, hits) ==
    IF hits = {} THEN None
    ELSE LET k == CHOOSE k \in hits : \A h \in hits : h[2] <= k[2]
         IN Some(<<k[1], k[2], table[k]>>)

\* IpLookupTable::longest_match on the table of the address's family
longest_match(table, fam, addr) ==
    longest_of(table, {k \in DOMAIN table : k[1].fam = fam /\ Covers(k, addr)})

\* IpLookupTable::exact_match
exact_match(table, fam, addr, prefix) ==
    IF addr.fam = fam /\ <<addr, prefix>> \in DOMAIN table
    THEN Some(table[<<addr, prefix>>])
    ELSE None

\* self.known_asns.insert(*asn) for the ASNs of one entry: [panic, asns]
insert_asns(acc, parsed) ==
    IF parsed.panic THEN [panic |-> TRUE, asns |-> acc.asns]
    ELSE [panic |-> FALSE, asns |-> acc.asns \cup Range(parsed.asns)]

\* the loop over the entries of fields[9]
RECURSIVE known_asns_loop(_, _)
known_asns_loop(entries, acc) ==
    IF entries = <<>> \/ acc.panic THEN acc
    ELSE known_asns_loop(Tail(entries),
             insert_asns(acc, parse_str_to_asns(entries[1])))

\* load_bgp_data, one "R" line: known_asns after its entries, and its paths
\* added to those known for the prefix
load_bgp_data_line(acc, prefix, asns, paths) ==
    IF asns.panic \/ paths.panic
    THEN [panic |-> TRUE, known_asns |-> acc.known_asns, known |-> acc.known]
    ELSE [panic |-> FALSE,
          known_asns |-> asns.asns,
          known |-> IF prefix \in DOMAIN acc.known
                    THEN MapInsert(acc.known, prefix,
                                   acc.known[prefix] \cup paths.paths)
                    ELSE MapInsert(acc.known, prefix, paths.paths)]

\* World::load_bgp_data, first loop: known and known_asns over the records
\* [type, prefix, path] (fields[1], fields[7], fields[9] of a line)
RECURSIVE load_bgp_data_loop(_, _)
load_bgp_data_loop(records, acc) ==
    IF records = <<>> \/ acc.panic THEN acc
    ELSE IF records[1].type # "R"
    THEN load_bgp_data_loop(Tail(records), acc)
    ELSE load_bgp_data_loop(Tail(records),
             load_bgp_data_line(acc, records[1].prefix,
                 known_asns_loop(Split(records[1].path, " "),
                     [panic |-> FALSE, asns |-> acc.known_asns]),
                 build_from_str(records[1].path)))

load_bgp_data(records) ==
    load_bgp_data_loop(records,
        [panic |-> FALSE, known_asns |-> {}, known |-> EmptyMap])

\* load_destinations, one address with its longest match m: the count of the
\* matched prefix goes up, an address nothing matches is skipped
count_destination(destination_counts, m) ==
    IF ~m.some THEN destination_counts
    ELSE IF <<m.val[1], m.val[2]>> \in DOMAIN destination_counts
    THEN MapInsert(destination_counts, <<m.val[1], m.val[2]>>,
                   destination_counts[<<m.val[1], m.val[2]>>] + 1)
    ELSE MapInsert(destination_counts, <<m.val[1], m.val[2]>>, 1)

\* World::load_destinations over the addresses of the file
RECURSIVE load_destinations_loop(_, _, _, _)
load_destinations_loop(lines, paths_v4, paths_v6, destination_counts) ==
    IF lines = <<>> THEN destination_counts
    ELSE load_destinations_loop(Tail(lines), paths_v4, paths_v6,
             count_destination(destination_counts,
                 longest_match(IF lines[1].fam = "V4" THEN paths_v4 ELSE paths_v6,
                               lines[1].fam, lines[1])))

\* the iteration orders a process may give the stored path sets of a table
TableOrders(known, fam) ==
    LET keys == {k \in DOMAIN known : k[1].fam = fam}
    IN {t \in [keys -> UNION {Orders(known[k]) : k \in keys}] :
            \A k \in keys : Range(t[k]) = known[k] /\ Len(t[k]) = Cardinality(known[k])}

\* the Worlds of build_new once the relationships and the BGP data are loaded
build_worlds(rels, bgp, destination_file) ==
    IF bgp.panic THEN {}
    ELSE {[as_relationships |-> rels,
           paths_v4 |-> t4,
           paths_v6 |-> t6,
           destination_counts |->
               load_destinations_loop(destination_file, t4, t6, EmptyMap),
           known_asns |-> bgp.known_asns] :
             t4 \in TableOrders(bgp.known, "V4"),
             t6 \in TableOrders(bgp.known, "V6")}

\* World::build_new: the Worlds the three files can give, one for each way
\* the path sets end up ordered (none when a line makes the build panic)
build_new(as_relationship_file, bgp_data_file, destination_file) ==
    build_worlds(load_relationships(as_relationship_file),
                 load_bgp_data(bgp_data_file), destination_file)

(***************************************************************************)
(* view.rs: View.  Every View of the model holds the one World of the      *)
(* state (Rc::ptr_eq is true of any two of them).                          *)
(***************************************************************************)
Views == {1, 2}

\* HashSet::extend(path.path): the hops as a set
HopSet(path) == Range(path)

\* the table of an address family
paths_of(w, fam) == IF fam = "V4" THEN w.paths_v4 ELSE w.paths_v6

\* build_paths, one destination key: the exact_match of the key and, when it
\* is there, the shortest_path from the source's paths to it
build_path(w, source_known_paths_in, k) ==
    LET dest_lookup == exact_match(paths_of(w, k[1].fam), k[1].fam, k[1], k[2])
    IN IF dest_lookup.some
       THEN shortest_path(source_known_paths_in, dest_lookup.val,
                          w.as_relationships)
       ELSE None

\* result.push((shortest, *dest_addr, *prefix)) for the keys that got a path
pushed(shortest) ==
    [k \in {x \in DOMAIN shortest : shortest[x].some} |-> shortest[k].val]

\* the loop of build_paths over destination_counts
build_paths_loop(w, source_known_paths_in) ==
    pushed([k \in DOMAIN w.destination_counts |->
               build_path(w, source_known_paths_in, k)])

\* build_paths once the vantage address is looked up
build_paths_from(w, lookup) ==
    IF lookup.some THEN build_paths_loop(w, lookup.val[3]) ELSE EmptyMap

\* View::build_paths: the map from each destination key that got a winning
\* path to that path (the Vec holds one entry for a key at most)
build_paths(w, addr) ==
    build_paths_from(w, longest_match(paths_of(w, addr.fam), addr.fam, addr))

\* the Occupied arm of the hard_core entry uniting in place instead
hard_core_occupied_union(stored, value) == stored \cup value

\* the Occupied arm of the hard_core entry: occupied.get_mut().intersection(&value)
\* builds a lazy iterator that is dropped; the stored set stays as it is
hard_core_occupied(stored, value) == stored

\* the Occupied arm of the all_seen entry: occupied.get_mut().union(&value2)
\* builds a lazy iterator that is dropped; the stored set stays as it is
all_seen_occupied(stored, value2) == stored

\* self.hard_core.entry(key) over the built paths: the Occupied arm for a key
\* that is stored, the Vacant arm inserting the hops otherwise
hard_core_entries(stored, paths) ==
    [k \in DOMAIN stored \cup DOMAIN paths |->
        IF k \notin DOMAIN paths THEN stored[k]
        ELSE IF k \in DOMAIN stored
        THEN hard_core_occupied(stored[k], HopSet(paths[k]))
        ELSE HopSet(paths[k])]

\* self.all_seen.entry(key) over the built paths
all_seen_entries(stored, paths) ==
    [k \in DOMAIN stored \cup DOMAIN paths |->
        IF k \notin DOMAIN paths THEN stored[k]
        ELSE IF k \in DOMAIN stored
        THEN all_seen_occupied(stored[k], HopSet(paths[k]))
        ELSE HopSet(paths[k])]

\* the loop of score_paths over the built paths
score_paths_loop(acc, paths) ==
    [hard_core |-> hard_core_entries(acc.hard_core, paths),
     all_seen |-> all_seen_entries(acc.all_seen, paths)]

\* View::score_paths on the accumulators acc = [hard_core, all_seen]
score_paths(w, acc, addr) == score_paths_loop(acc, build_paths(w, addr))

\* the loop of View::add_perspectives
RECURSIVE score_all(_, _, _)
score_all(w, acc, addrs) ==
    IF addrs = <<>> THEN acc
    ELSE score_all(w, score_paths(w, acc, addrs[1]), Tail(addrs))

(***************************************************************************)
(* view.rs: the dissimilarity metrics.  An f64 is modelled as the exact     *)
(* fraction [nan, num, den] in lowest terms with den > 0.                   *)
(***************************************************************************)
RECURSIVE GCD(_, _)
GCD(a, b) == IF b = 0 THEN a ELSE GCD(b, a % b)

Abs(n) == IF n < 0 THEN -n ELSE n

Frac(n, d) ==
    IF d = 0 THEN [nan |-> TRUE, num |-> 0, den |-> 1]
    ELSE LET g == GCD(Abs(n), Abs(d))
         IN [nan |-> FALSE, num |-> n \div g, den |-> d \div g]

FracAdd(x, n, d) == Frac(x.num * d + n * x.den, x.den * d)

\* the set at a key, or the empty set (unwrap_or(&empty))
SetAt(m, key) == IF key \in DOMAIN m THEN m[key] ELSE {}

\* the loop shared by the two metrics over destination_counts, the keys
\* taken in the order `keys`, terms[key] = <<numerator, denomenator>>:
\* [total, total_count]
RECURSIVE weighted_sum(_, _, _, _)
weighted_sum(counts, keys, terms, acc) ==
    IF keys = <<>> THEN acc
    ELSE LET key == keys[1]
             numerator == terms[key][1]
             denomenator == terms[key][2]
             next == IF denomenator = 0 THEN acc
                     ELSE [total_count |-> acc.total_count + counts[key],
                           total |-> FracAdd(acc.total, counts[key] * numerator,
                                             denomenator)]
         IN weighted_sum(counts, Tail(keys), terms, next)

KeyOrder(counts) == CHOOSE o \in Orders(DOMAIN counts) : TRUE

\* View::core_dissimilarity(self, other), the accumulators of the two Views given
core_dissimilarity(w, mine_core, their_core) ==
    LET terms == [k \in DOMAIN w.destination_counts |->
                    LET mine == SetAt(mine_core, k)
                        theirs == SetAt(their_core, k)
                    IN <<Cardinality(mine \ theirs) + Cardinality(theirs \ mine),
                         Cardinality(mine) + Cardinality(theirs)>>]
        s == weighted_sum(w.destination_counts, KeyOrder(w.destination_counts),
                          terms, [total_count |-> 0, total |-> Frac(0, 1)])
    IN Frac(s.total.num, s.total.den * s.total_count)

\* View::jaccard_dissimilarity(self, other)
jaccard_dissimilarity(w, mine_seen, their_seen) ==
    LET terms == [k \in DOMAIN w.destination_counts |->
                    LET mine == SetAt(mine_seen, k)
                        theirs == SetAt(their_seen, k)
                    IN <<Cardinality(mine \cap theirs),
                         Cardinality(mine \cup theirs)>>]
        s == weighted_sum(w.destination_counts, KeyOrder(w.destination_counts),
                          terms, [total_count |-> 0, total |-> Frac(0, 1)])
        total == Frac(s.total.num, s.total.den * s.total_count)
    IN IF total.nan THEN total ELSE Frac(total.den - total.num, total.den)

(***************************************************************************)
(* Inputs: the text of AS-path fields.                                      *)
(***************************************************************************)
RECURSIVE ToDigits(_)
ToDigits(n) ==
    IF n < 10 THEN <<Digits[n + 1]>>
    ELSE ToDigits(n \div 10) \o <<Digits[(n % 10) + 1]>>

RECURSIVE JoinWith(_, _)
JoinWith(pieces, sep) ==
    IF pieces = <<>> THEN <<>>
    ELSE IF Len(pieces) = 1 THEN pieces[1]
    ELSE pieces[1] \o <<sep>> \o JoinWith(Tail(pieces), sep)

\* a token is [open, close, alts]: a literal ASN has no brackets and one alt
Lit(n) == [open |-> "", close |-> "", alts |-> <<n>>]

AsSet(open, close, alts) == [open |-> open, close |-> close, alts |-> alts]

RenderToken(t) ==
    (IF t.open = "" THEN <<>> ELSE <<t.open>>)
    \o JoinWith([i \in DOMAIN t.alts |-> ToDigits(t.alts[i])], ",")
    \o (IF t.close = "" THEN <<>> ELSE <<t.close>>)

Render(tokens) == JoinWith([i \in DOMAIN tokens |-> RenderToken(tokens[i])], " ")

(***************************************************************************)
(* Inputs: the files of two runs of the program.                            *)
(***************************************************************************)
RelLine(a, b, r) == [comment |-> FALSE, fields |-> <<a, b, r>>]

CommentLine == [comment |-> TRUE, fields |-> <<0, 0, 0>>]

Record(type, addr, len, tokens) ==
    [type |-> type, prefix |-> <<addr, len>>, path |-> Render(tokens)]

V6Net == V6(<<32, 1, 13, 184, 0, 0, 0, 0, 0, 0, 0, 0, 0, 0, 0, 0>>)

V6Host == V6(<<32, 1, 13, 184, 0, 0, 0, 0, 0, 0, 0, 0, 0, 0, 0, 7>>)

\* one relationship, one destination prefix "200 100", the vantage's own
\* network "300 200", one destination address
ScenarioA ==
    [relationships |-> <<RelLine(100, 200, -1)>>,
     bgp |-> <<Record("R", V4(10, 0, 0, 0), 24, <<Lit(200), Lit(100)>>),
               Record("R", V4(20, 0, 0, 0), 24, <<Lit(300), Lit(200)>>)>>,
     destinations |-> <<V4(10, 0, 0, 5)>>]

\* two vantage networks, nested destination prefixes, an AS-SET, a record that
\* is no route announcement, an IPv6 prefix, an unmatched destination
ScenarioB ==
    [relationships |-> <<CommentLine, RelLine(100, 200, -1),
                         RelLine(300, 100, 0), RelLine(400, 100, 5)>>,
     bgp |-> <<Record("R", V4(10, 0, 0, 0), 24, <<Lit(200), Lit(100)>>),
               Record("R", V4(10, 0, 0, 128), 25, <<Lit(300), Lit(100)>>),
               Record("R", V4(20, 0, 0, 0), 24, <<Lit(300), Lit(200)>>),
               Record("R", V4(30, 0, 0, 0), 24, <<AsSet("{", "}", <<100, 400>>)>>),
               Record("A", V4(10, 0, 0, 0), 24, <<Lit(500)>>),
               Record("R", V6Net, 32, <<Lit(100)>>)>>,
     destinations |-> <<V4(10, 0, 0, 5), V4(10, 0, 0, 5), V4(10, 0, 0, 200),
                        V4(99, 0, 0, 9), V6Host>>]

Scenarios == {ScenarioA, ScenarioB}

WorldsOf(sc) == build_new(sc.relationships, sc.bgp, sc.destinations)

\* the vantage addresses added to Views: inside 20.0.0.0/24, inside
\* 30.0.0.0/24, and one no prefix covers
VantagePool == {V4(20, 0, 0, 1), V4(30, 0, 0, 1), V4(99, 0, 0, 1)}

(***************************************************************************)
(* The program: one World, Views over it.                                   *)
(***************************************************************************)
\* no World is built and no View is used when a function is called on its own
NoWorld == [none |-> TRUE]

NoCall == [fn |-> "none"]

NoRet == [state |-> "none"]

\* World::build_new, then View::new for each View
Init ==
    /\ world \in UNION {WorldsOf(sc) : sc \in Scenarios}
    /\ perspectives = [v \in Views |-> <<>>]
    /\ hard_core = [v \in Views |-> EmptyMap]
    /\ all_seen = [v \in Views |-> EmptyMap]
    /\ call = NoCall
    /\ ret = NoRet

\* the View v after add_perspectives: acc holds its accumulators after the
\* score_paths of every new address, self.perspectives.extend(new_perspectives)
scored(v, new, acc) ==
    /\ hard_core' = [x \in Views |-> IF x = v THEN acc.hard_core
                                             ELSE hard_core[x]]
    /\ all_seen' = [x \in Views |-> IF x = v THEN acc.all_seen
                                            ELSE all_seen[x]]
    /\ perspectives' = [x \in Views |-> IF x = v THEN perspectives[x] \o new
                                                ELSE perspectives[x]]
    /\ UNCHANGED <<world, call, ret>>

\* View::add_perspectives
add_perspectives(v, new) ==
    scored(v, new, score_all(world,
               [hard_core |-> hard_core[v], all_seen |-> all_seen[v]], new))

AddPerspectives ==
    \E v \in Views, new \in SeqsOf(VantagePool, 0, MaxBatch) :
        /\ Len(perspectives[v]) + Len(new) <= MaxPersp
        /\ add_perspectives(v, new)

Next == AddPerspectives

Spec == Init /\ [][Next]_vars

(***************************************************************************)
(* Path::build_from_str on its own: the field is the text of a drawn token  *)
(* sequence, and the call parses that text.                                 *)
(***************************************************************************)
ParseASNs == {1, 2, 3}

\* the alternatives of one AS-SET: no ASN twice
AltSeqs == {a \in SeqsOf(ParseASNs, 1, MaxAlts) :
                \A i, j \in DOMAIN a : a[i] = a[j] => i = j}

\* literal ASNs, AS-SETs in the three bracket styles, an AS-SET whose closing
\* bracket is missing and one whose opening bracket is missing
TokenPool ==
    {Lit(n) : n \in ParseASNs}
    \cup {AsSet(b[1], b[2], a) :
            b \in {<<"{", "}">>, <<"(", ")">>, <<"[", "]">>,
                   <<"{", "">>, <<"", "}">>},
            a \in AltSeqs}

InitParse ==
    /\ world = NoWorld
    /\ perspectives = [v \in Views |-> <<>>]
    /\ hard_core = [v \in Views |-> EmptyMap]
    /\ all_seen = [v \in Views |-> EmptyMap]
    /\ \E tokens \in SeqsOf(TokenPool, 0, MaxTokens) :
           call = [fn |-> "build_from_str", tokens |-> tokens,
                   path |-> Render(tokens)]
    /\ ret = [state |-> "pending"]

BuildFromStr ==
    /\ call.fn = "build_from_str"
    /\ ret.state = "pending"
    /\ ret' = [state |-> "done", val |-> build_from_str(call.path)]
    /\ UNCHANGED <<world, perspectives, hard_core, all_seen, call>>

NextParse == BuildFromStr

SpecParse == InitParse /\ [][NextParse]_vars

(***************************************************************************)
(* Path::valleyless, View::intersect_paths and View::shortest_path on       *)
(* their own, over every path and relationship graph within the bounds.     *)
(***************************************************************************)
PathASNs == {1, 2, 3}

RelCodes == {-1, 0, 1}

\* the graphs load_relationships builds from the files of at most MaxRelLines
\* lines over the ASNs
RelMaps(asns, selfLines) ==
    LET lines == {RelLine(a, b, r) : a \in asns, b \in asns, r \in RelCodes}
        pool == {l \in lines : selfLines \/ l.fields[1] # l.fields[2]}
    IN {load_relationships(f) : f \in SeqsOf(pool, 0, MaxRelLines)}

PathRelMaps == RelMaps(PathASNs, TRUE)

SetRelMaps == RelMaps(PathASNs, FALSE)

\* the paths stored in a set handed to shortest_path: the loop-free paths of
\* one hop or two
SetPaths == {p \in [{1} -> PathASNs] \cup [{1, 2} -> PathASNs] :
                \A i, j \in DOMAIN p : p[i] = p[j] => i = j}

\* the pairs of non-empty path sets with MaxPaths paths at most between them
SetPairs ==
    {sd \in (SUBSET SetPaths) \X (SUBSET SetPaths) :
        /\ sd[1] # {} /\ sd[2] # {}
        /\ Cardinality(sd[1]) + Cardinality(sd[2]) <= MaxPaths}

InitPath ==
    /\ world = NoWorld
    /\ perspectives = [v \in Views |-> <<>>]
    /\ hard_core = [v \in Views |-> EmptyMap]
    /\ all_seen = [v \in Views |-> EmptyMap]
    /\ \/ \E path \in SeqsOf(PathASNs, 0, MaxHops), rels \in PathRelMaps :
              call = [fn |-> "valleyless", path |-> path,
                      as_relationships |-> rels]
       \/ \E a \in SeqsOf(PathASNs, 0, MaxHops), b \in SeqsOf(PathASNs, 0, MaxHops) :
              call = [fn |-> "intersect_paths", a |-> a, b |-> b]
       \/ \E sd \in SetPairs, rels \in SetRelMaps :
              call = [fn |-> "shortest_path", src_in_paths |-> sd[1],
                      dst_in_paths |-> sd[2], as_relationships |-> rels]
    /\ ret = [state |-> "pending"]

Valleyless ==
    /\ call.fn = "valleyless"
    /\ ret.state = "pending"
    /\ ret' = [state |-> "done",
               val |-> valleyless(call.path, call.as_relationships)]
    /\ UNCHANGED <<world, perspectives, hard_core, all_seen, call>>

IntersectPaths ==
    /\ call.fn = "intersect_paths"
    /\ ret.state = "pending"
    /\ ret' = [state |-> "done", val |-> intersect_paths(call.a, call.b)]
    /\ UNCHANGED <<world, perspectives, hard_core, all_seen, call>>

\* the two HashSets are iterated in an order the process fixes
ShortestPath ==
    /\ call.fn = "shortest_path"
    /\ ret.state = "pending"
    /\ \E src \in Orders(call.src_in_paths), dst \in Orders(call.dst_in_paths) :
           ret' = [state |-> "done", src |-> src, dst |-> dst,
                   val |-> shortest_path(src, dst, call.as_relationships)]
    /\ UNCHANGED <<world, perspectives, hard_core, all_seen, call>>

NextPath == Valleyless \/ IntersectPaths \/ ShortestPath

SpecPath == InitPath /\ [][NextPath]_vars

(***************************************************************************)
(* Claims about the accumulators (specification Spec).                      *)
(***************************************************************************)
\* the hop sets of the winning paths to key k of the vantages added to View v
WinningHopSets(v, k) ==
    {HopSet(build_paths(world, perspectives[v][i])[k]) :
        i \in {j \in DOMAIN perspectives[v] :
                   k \in DOMAIN build_paths(world, perspectives[v][j])}}

Inter(sets) == {x \in UNION sets : \A s \in sets : x \in s}

\* C1: hard_core[k] is exactly the set of ASNs that appear in the winning path
\* to k of every vantage added so far that produced one (each later winning
\* path intersects the stored set).
C1_HardCoreIsIntersection ==
    \A v \in Views : \A k \in DOMAIN hard_core[v] :
        hard_core[v][k] = Inter(WinningHopSets(v, k))

\* C2: all_seen[k] is exactly the set of ASNs that appear in the winning path
\* to k of at least one vantage added so far (each later winning path is
\* united into the stored set).
C2_AllSeenIsUnion ==
    \A v \in Views : \A k \in DOMAIN all_seen[v] :
        all_seen[v][k] = UNION WinningHopSets(v, k)

\* C3: in every reachable state, for every key present in either accumulator
\* map of a View, hard_core[k] is a subset of all_seen[k].
C3_HardCoreSubsetAllSeen ==
    \A v \in Views : \A k \in DOMAIN hard_core[v] \cup DOMAIN all_seen[v] :
        SetAt(hard_core[v], k) \subseteq SetAt(all_seen[v], k)

\* C3 witness: a View that was given two vantages whose winning paths to one
\* key have different hop sets.
C3_Witness ==
    \E v \in Views : \E k \in DOMAIN hard_core[v] :
        Cardinality(WinningHopSets(v, k)) >= 2

\* C4: two Views over the same World whose sets of added vantage addresses are
\* equal have core_dissimilarity 0 and jaccard_dissimilarity 0, provided some
\* destination key has a non-empty set.
C4_SameVantagesZeroDissimilarity ==
    \A v1 \in Views, v2 \in Views :
        (/\ Range(perspectives[v1]) = Range(perspectives[v2])
         /\ \E k \in DOMAIN world.destination_counts :
                SetAt(hard_core[v1], k) \cup SetAt(hard_core[v2], k) # {})
        => /\ core_dissimilarity(world, hard_core[v1], hard_core[v2]) = Frac(0, 1)
           /\ jaccard_dissimilarity(world, all_seen[v1], all_seen[v2]) = Frac(0, 1)

WorldsA == WorldsOf(ScenarioA)

KeyA == <<V4(10, 0, 0, 0), 24>>

VantageA == V4(20, 0, 0, 1)

\* C7 as stated: in the scenario of one relationship (100,200,-1), prefix
\* 10.0.0.0/24 announced with "200 100", the vantage's network with "300 200"
\* and one destination inside 10.0.0.0/24, a View given that one vantage has
\* hard_core = all_seen = {300, 200, 100} at 10.0.0.0/24.
C7_ScenarioAsStated ==
    \A v \in Views :
        (world \in WorldsA /\ perspectives[v] = <<VantageA>>)
        => /\ KeyA \in DOMAIN hard_core[v] \cap DOMAIN all_seen[v]
           /\ hard_core[v][KeyA] = {300, 200, 100}
           /\ all_seen[v][KeyA] = {300, 200, 100}

\* C7 as amended: in that scenario the View has hard_core = all_seen =
\* {200, 100} at 10.0.0.0/24: the splice keeps the vantage path "300 200" from
\* the shared AS 200 to its end only, so 300 is not part of the winning path.
C7_ScenarioAmended ==
    \A v \in Views :
        (world \in WorldsA /\ perspectives[v] = <<VantageA>>)
        => /\ KeyA \in DOMAIN hard_core[v] \cap DOMAIN all_seen[v]
           /\ hard_core[v][KeyA] = {200, 100}
           /\ all_seen[v][KeyA] = {200, 100}

\* C7 witness: the scenario's World with the one vantage added to a View.
C7_Witness ==
    /\ world \in WorldsA
    /\ world.destination_counts = (KeyA :> 1)
    /\ perspectives[1] = <<VantageA>>
    /\ KeyA \in DOMAIN hard_core[1]

(***************************************************************************)
(* Claims about Path::build_from_str (specification SpecParse).             *)
(***************************************************************************)
\* a token as the file format has it: a literal ASN, or alternatives between
\* an opening and a closing bracket
WellFormed(t) ==
    \/ t.open = "" /\ t.close = "" /\ Len(t.alts) = 1
    \/ t.open # "" /\ t.close # ""

\* one path per combination of alternatives, one hop for each token
Combinations(tokens) ==
    {p \in [1..Len(tokens) -> UNION {Range(tokens[i].alts) : i \in DOMAIN tokens}] :
        \A i \in DOMAIN tokens : p[i] \in Range(tokens[i].alts)}

Parsed == call.fn = "build_from_str" /\ ret.state = "done"

Field12_3 == <<"{", "1", ",", "2", "}", " ", "3">>

\* C5 as stated: build_from_str yields exactly one Path per combination of
\* AS-SET alternatives and no other path; "{1,2} 3" yields exactly [1,3] and
\* [2,3].
C5_ExactlyTheCombinations ==
    (Parsed /\ call.tokens # <<>> /\ \A i \in DOMAIN call.tokens : WellFormed(call.tokens[i]))
    => /\ ~ret.val.panic
       /\ ret.val.paths = Combinations(call.tokens)
       /\ call.path = Field12_3 => ret.val.paths = {<<1, 3>>, <<2, 3>>}

\* C5 as amended: build_from_str yields exactly one Path per combination of
\* alternatives of every non-empty suffix of the field's tokens (the whole
\* field included) and no other path; "{1,2} 3" yields exactly [3], [1,3] and
\* [2,3].
C5_CombinationsOfEverySuffix ==
    (Parsed /\ call.tokens # <<>> /\ \A i \in DOMAIN call.tokens : WellFormed(call.tokens[i]))
    => /\ ~ret.val.panic
       /\ ret.val.paths =
              UNION {Combinations(SubSeq(call.tokens, k, Len(call.tokens))) :
                        k \in DOMAIN call.tokens}
       /\ call.path = Field12_3 => ret.val.paths = {<<3>>, <<1, 3>>, <<2, 3>>}

\* C5 witness: the field "{1,2} 3" has been parsed.
C5_Witness == Parsed /\ call.path = Field12_3 /\ ~ret.val.panic

(***************************************************************************)
(* Claims about valleyless, intersect_paths and shortest_path               *)
(* (specification SpecPath).                                                *)
(***************************************************************************)
\* every consecutive pair has a stored relation, and no step's relation is
\* smaller than the one of the step before
MonotoneRelations(path, rels) ==
    /\ \A k \in 1..(Len(path) - 1) : <<path[k], path[k + 1]>> \in DOMAIN rels
    /\ \A k \in 2..(Len(path) - 1) :
           RelRank(rels[<<path[k], path[k + 1]>>])
               >= RelRank(rels[<<path[k - 1], path[k]>>])

\* C6: valleyless returns true exactly when every consecutive hop pair has a
\* stored relation and no step decreases; in particular true for every path of
\* zero hops and of one hop.
C6_ValleylessIsMonotone ==
    (call.fn = "valleyless" /\ ret.state = "done")
    => /\ ~ret.val.panic
       /\ ret.val.val = MonotoneRelations(call.path, call.as_relationships)

\* the pairs of 0-based positions at which a and b hold the same AS
SharedPairs(a, b) ==
    {ij \in (0..(Len(a) - 1)) \X (0..(Len(b) - 1)) : a[ij[1] + 1] = b[ij[2] + 1]}

MaxSumPairs(a, b) ==
    {ij \in SharedPairs(a, b) :
        \A other \in SharedPairs(a, b) : other[1] + other[2] <= ij[1] + ij[2]}

\* C8: intersect_paths(A, B) is none exactly when A and B share no AS;
\* otherwise it is A's hops from i to the end reversed, followed by B's hops
\* from j+1 to the end, for a pair (i, j) with A[i] = B[j] of maximal i + j.
C8_SpliceAtMaximalPair ==
    (call.fn = "intersect_paths" /\ ret.state = "done")
    => /\ ret.val.some <=> SharedPairs(call.a, call.b) # {}
       /\ ret.val.some =>
              \E ij \in MaxSumPairs(call.a, call.b) :
                  ret.val.val = Reverse(SubSeq(call.a, ij[1] + 1, Len(call.a)))
                                \o SubSeq(call.b, ij[2] + 2, Len(call.b))

\* C8 witness: a splice of two paths that share an AS occurring twice in A and
\* twice in B.
C8_Witness ==
    /\ call.fn = "intersect_paths" /\ ret.state = "done" /\ ret.val.some
    /\ \E i1, i2 \in DOMAIN call.a, j1, j2 \in DOMAIN call.b :
           i1 < i2 /\ j1 < j2 /\ call.a[i1] = call.a[i2]
           /\ call.b[j1] = call.b[j2] /\ call.a[i1] = call.b[j1]

\* the spliced candidates of a call of shortest_path, and the valley-free ones
Candidates ==
    {intersect_paths(sd[1], sd[2]).val :
        sd \in {x \in call.src_in_paths \X call.dst_in_paths :
                    intersect_paths(x[1], x[2]).some}}

ValleyFreeCandidates ==
    {c \in Candidates : valleyless(c, call.as_relationships).val}

ShortestIn(p, set) == p \in set /\ \A c \in set : Len(p) <= Len(c)

\* C9: shortest_path returns none exactly when no pair splices; otherwise a
\* valley-free candidate with the fewest hops among the valley-free ones if
\* there is one, and else a candidate with the fewest hops among all.
C9_ShortestValleyFreeFirst ==
    (call.fn = "shortest_path" /\ ret.state = "done")
    => /\ ~ret.val.some <=> Candidates = {}
       /\ ValleyFreeCandidates # {} =>
              ret.val.some /\ ShortestIn(ret.val.val, ValleyFreeCandidates)
       /\ (ValleyFreeCandidates = {} /\ Candidates # {}) =>
              ret.val.some /\ ShortestIn(ret.val.val, Candidates)

\* C9 witness: a call whose winner is valley-free although a candidate that is
\* not valley-free has fewer hops.
C9_Witness ==
    /\ call.fn = "shortest_path" /\ ret.state = "done" /\ ret.val.some
    /\ ret.val.val \in ValleyFreeCandidates
    /\ \E c \in Candidates \ ValleyFreeCandidates : Len(c) < Len(ret.val.val)

\* C10: the path shortest_path returns is the same whatever the order in which
\* the two path sets are enumerated, also when candidates tie for the fewest
\* hops.
C10_WinnerIndependentOfOrder ==
    (call.fn = "shortest_path" /\ ret.state = "done")
    => \A src \in Orders(call.src_in_paths), dst \in Orders(call.dst_in_paths) :
           shortest_path(src, dst, call.as_relationships) = ret.val

====
